---- MODULE Spec2Model ----
(***************************************************************************)
(* CarBnR back end: the mongoose models (State, City, Location, Car,       *)
(* Reservation, User) and the controllers that write them, as a state      *)
(* machine over the six collections.  Routing, authentication and the      *)
(* fields that carry no cross-record rule (brand, address, ...) are left   *)
(* out; a controller is called with the identity its caller hands it.      *)
(* Dates are milliseconds, as the Date arithmetic of the models has them.  *)
(***************************************************************************)
EXTENDS Integers, Sequences, FiniteSets, TLC

VARIABLES
  states,        \* State collection:       _id -> [name]
  cities,        \* City collection:        _id -> [name, stateId]
  locations,     \* Location collection:    _id -> [cityId, userId, deleted]
  users,         \* User collection:        _id -> [deleted]
  cars,          \* Car collection:         _id -> [locationId, priceByDay, registrationNumber]
  reservations,  \* Reservation collection: _id -> [carId, userId, startDate, endDate, status, totalPrice]
  nextId,        \* the next fresh ObjectId
  now,           \* the clock read by new Date()
  resp,          \* the last HTTP response sent
  pc,            \* per in-flight request: the await it is suspended at
  doc            \* per in-flight request: the document being saved

vars == <<states, cities, locations, users, cars, reservations, nextId, now, resp, pc, doc>>

store == <<states, cities, locations, users, cars, reservations, nextId>>

-----------------------------------------------------------------------------
(* Bounds of the model.                                                    *)

MaxCreated == 2          \* documents created on top of the initial database
MaxClock == 1            \* clock ticks, half a day each
MaxDate == 4             \* request dates range over 0 .. MaxDate half days

(* Program constants.                                                      *)

MsPerDay == 86400000     \* 1000 * 60 * 60 * 24

HalfDay == MsPerDay \div 2

NoId == 0                \* an ObjectId that resolves to no document

NullDate == <<>>         \* deleted: null; a set marker is <<date>>

EmptyCollection == [i \in {} |-> {}]

DateInputs == {k * HalfDay : k \in 0..MaxDate}

PriceInputs == {100, 150}

StatusEnum == {"pending", "confirmed", "cancelled", "completed"}

StatusInputs == StatusEnum

Procs == {1, 2}

-----------------------------------------------------------------------------
(* Queries.                                                                *)

\* The hook that looks at the withDeleted option alone.
SoftDeleteFilterOptionOnly(coll, withDeleted, deletedCond) ==
  IF ~withDeleted
    THEN {id \in DOMAIN coll : coll[id].deleted = NullDate}
    ELSE DOMAIN coll

\* pre(/^find/) of Location and User: unless the query asks for deleted
\* documents (option withDeleted, or a truthy condition on deleted), it is
\* narrowed to deleted: null.
SoftDeleteFilter(coll, withDeleted, deletedCond) ==
  IF ~withDeleted /\ ~deletedCond
    THEN {id \in DOMAIN coll : coll[id].deleted = NullDate}
    ELSE DOMAIN coll

\* Model.findById on a collection without a find hook.
FindById(coll, id) == {i \in DOMAIN coll : i = id}

\* findById with the pre(/^find/) hook left out.
FindLiveByIdUnfiltered(coll, id) == {i \in DOMAIN coll : i = id}

\* Location.findById / User.findById: findOne through the pre(/^find/) hook.
FindLiveById(coll, id) == {i \in SoftDeleteFilter(coll, FALSE, FALSE) : i = id}

\* A query on Location or User: ids are the documents its other conditions
\* match, deleted is its condition on the deleted field: "any" for none,
\* "null" for {deleted: null}, "set" for {deleted: {$ne: null}}.
MatchesDeleted(d, cond) ==
  CASE cond = "null" -> d.deleted = NullDate
    [] cond = "set" -> d.deleted # NullDate
    [] OTHER -> TRUE

\* Model.find(query).setOptions({withDeleted}): the hook, then the match.
\* {$ne: null} is a truthy _conditions.deleted, null is not.
Find(coll, q, withDeleted) ==
  {i \in SoftDeleteFilter(coll, withDeleted, q.deleted = "set") :
     i \in q.ids /\ MatchesDeleted(coll[i], q.deleted)}

\* Model.findOne(query).setOptions({withDeleted}): the first match, if any.
FindOne(coll, q, withDeleted) ==
  LET found == Find(coll, q, withDeleted)
  IN {i \in found : \A j \in found : i <= j}

-----------------------------------------------------------------------------
(* Responses.                                                              *)

Response(op, code, error, paths) ==
  [op |-> op, code |-> code, error |-> error, paths |-> paths]

Ok(op, code) == Response(op, code, "", {})

ValidationError(paths) ==
  [name |-> "ValidationError", message |-> "validation failed", paths |-> paths, code |-> 0]

PlainError(message) == [name |-> "Error", message |-> message, paths |-> {}, code |-> 0]

\* E11000: the write hit a unique index.
DuplicateKeyError ==
  [name |-> "MongoServerError", message |-> "E11000 duplicate key error", paths |-> {}, code |-> 11000]

\* handleErrors of the reservation controller.
ReservationHandleErrors(op, err) ==
  IF err.message = "Car already reserved for these dates"
    THEN Response(op, 409, err.message, {})
    ELSE IF err.name = "ValidationError"
      THEN Response(op, 400, err.name, err.paths)
      ELSE Response(op, 500, "Failed", {})

\* handleErrors of the city, location and car controllers: 400 for a
\* ValidationError, 409 for a duplicate key, 500 otherwise.
HandleErrors(op, err) ==
  IF err.name = "ValidationError"
    THEN Response(op, 400, err.name, err.paths)
    ELSE IF err.code = 11000
      THEN Response(op, 409, "already exists", {})
      ELSE Response(op, 500, "Failed", {})

-----------------------------------------------------------------------------
(* Strings, as sequences of one-character strings.                         *)

UpperLetters == {"A", "B", "C"}

LowerLetters == {"a", "b", "c"}

Digits == {"1", "2", "3", "4"}

Whitespace == {" "}

\* Letters outside ASCII: toUpperCase and toLowerCase map them, \w does not
\* match them.
AccentedLetters == {"é", "É"}

ToUpper(ch) ==
  CASE ch = "a" -> "A" [] ch = "b" -> "B" [] ch = "c" -> "C" [] ch = "é" -> "É"
    [] OTHER -> ch

ToLower(ch) ==
  CASE ch = "A" -> "a" [] ch = "B" -> "b" [] ch = "C" -> "c" [] ch = "É" -> "é"
    [] OTHER -> ch

\* \w of a regular expression without the u flag: [A-Za-z0-9_].
IsWordChar(ch) == ch \in UpperLetters \cup LowerLetters \cup Digits \cup {"_"}

\* String.prototype.toUpperCase (the uppercase: true setter).
UpperCase(s) == [i \in 1..Len(s) |-> ToUpper(s[i])]

RECURSIVE TrimLeft(_)
TrimLeft(s) ==
  IF s # <<>> /\ Head(s) \in Whitespace THEN TrimLeft(Tail(s)) ELSE s

RECURSIVE TrimRight(_)
TrimRight(s) ==
  IF s # <<>> /\ s[Len(s)] \in Whitespace THEN TrimRight(SubSeq(s, 1, Len(s) - 1)) ELSE s

\* String.prototype.trim (the trim: true setter).
Trim(s) == TrimRight(TrimLeft(s))

\* value.replace(/\w\S*/g, txt => txt.charAt(0).toUpperCase() +
\* txt.substr(1).toLowerCase()): inTok says whether position i lies inside a
\* match that started at an earlier word character.
RECURSIVE ProperCaseFrom(_, _, _)
ProperCaseFrom(s, i, inTok) ==
  IF i > Len(s) THEN <<>>
  ELSE IF inTok
    THEN IF s[i] \in Whitespace
           THEN <<s[i]>> \o ProperCaseFrom(s, i + 1, FALSE)
           ELSE <<ToLower(s[i])>> \o ProperCaseFrom(s, i + 1, TRUE)
    ELSE IF IsWordChar(s[i])
           THEN <<ToUpper(s[i])>> \o ProperCaseFrom(s, i + 1, TRUE)
           ELSE <<s[i]>> \o ProperCaseFrom(s, i + 1, FALSE)

ProperCase(s) == ProperCaseFrom(s, 1, FALSE)

\* The setters of State.name and City.name: the custom setter, then trim.
NameSetter(raw) == Trim(ProperCase(raw))

-----------------------------------------------------------------------------
(* Reservation model.                                                      *)

\* new Reservation({carId, userId, startDate, endDate}); status defaults to
\* pending, totalPrice is unset until the pre-save hook.
NewReservation(c, u, s, e) ==
  [carId |-> c, userId |-> u, startDate |-> s, endDate |-> e,
   status |-> "pending", totalPrice |-> 0]

\* Validators that compare with >= where the schema compares with >.
ReservationValidateLax(d) ==
  {p \in {"carId", "userId", "startDate", "endDate"} :
     \/ p = "carId" /\ FindById(cars, d.carId) = {}
     \/ p = "userId" /\ FindLiveById(users, d.userId) = {}
     \/ p = "startDate" /\ ~(d.startDate >= now)
     \/ p = "endDate" /\ ~(d.endDate >= d.startDate)}

\* Validators that leave the references unchecked.
ReservationValidateDatesOnly(d) ==
  {p \in {"startDate", "endDate"} :
     \/ p = "startDate" /\ ~(d.startDate > now)
     \/ p = "endDate" /\ ~(d.endDate > d.startDate)}

\* The schema validators of a Reservation, run by save() before the pre-save
\* hooks: the set of paths that fail.
ReservationValidate(d) ==
  {p \in {"carId", "userId", "startDate", "endDate"} :
     \/ p = "carId" /\ FindById(cars, d.carId) = {}
     \/ p = "userId" /\ FindLiveById(users, d.userId) = {}
     \/ p = "startDate" /\ ~(d.startDate > now)
     \/ p = "endDate" /\ ~(d.endDate > d.startDate)}

\* Math.floor in place of Math.ceil.
Floor(x, y) == x \div y

\* Math.ceil(x / y) for x >= 0, y > 0.
Ceil(x, y) == (x + y - 1) \div y

\* First pre('save') hook: days * car.priceByDay.
TotalPrice(d) ==
  Ceil(d.endDate - d.startDate, MsPerDay) * cars[d.carId].priceByDay

\* A swapped comparison pair in the overlap query.
OverlappingSwapped(d) ==
  {r \in DOMAIN reservations :
     /\ reservations[r].carId = d.carId
     /\ ~(reservations[r].endDate >= d.startDate)
     /\ ~(reservations[r].startDate <= d.endDate)}

\* $lt and $gt in place of $lte and $gte: touching intervals match too.
OverlappingClosed(d) ==
  {r \in DOMAIN reservations :
     /\ reservations[r].carId = d.carId
     /\ ~(reservations[r].endDate < d.startDate)
     /\ ~(reservations[r].startDate > d.endDate)}

\* The TypeError of car.priceByDay in the first hook when the car is gone.
NullCarError == PlainError("Cannot read properties of null")

\* The error thrown by the second hook.
AlreadyReservedError == PlainError("Car already reserved for these dates")

\* Second pre('save') hook: the reservations of the car matched by
\* $nor: [{endDate: {$lte: start}}, {startDate: {$gte: end}}].
Overlapping(d) ==
  {r \in DOMAIN reservations :
     /\ reservations[r].carId = d.carId
     /\ ~(reservations[r].endDate <= d.startDate)
     /\ ~(reservations[r].startDate >= d.endDate)}

-----------------------------------------------------------------------------
(* Reservation controller, each request run to completion.                 *)

\* createReservation: new Reservation(...).save() and the reply.
CreateReservation(c, u, s, e) ==
  LET d == NewReservation(c, u, s, e)
      errs == ReservationValidate(d)
  IN IF errs # {}
       THEN /\ resp' = ReservationHandleErrors("createReservation", ValidationError(errs))
            /\ UNCHANGED <<store, now, pc, doc>>
       ELSE IF FindById(cars, d.carId) = {}
         THEN /\ resp' = ReservationHandleErrors("createReservation", NullCarError)
              /\ UNCHANGED <<store, now, pc, doc>>
         ELSE IF Overlapping(d) # {}
           THEN /\ resp' = ReservationHandleErrors("createReservation", AlreadyReservedError)
                /\ UNCHANGED <<store, now, pc, doc>>
           ELSE /\ reservations' = (nextId :> [d EXCEPT !.totalPrice = TotalPrice(d)]) @@ reservations
                /\ nextId' = nextId + 1
                /\ resp' = Ok("createReservation", 201)
                /\ UNCHANGED <<states, cities, locations, users, cars, now, pc, doc>>

\* The status set on the loaded document and the document saved again, so
\* that the pre('save') price hook runs on the update.
UpdateReservationStatusResave(id, status) ==
  /\ IF FindById(reservations, id) = {}
       THEN /\ resp' = Response("updateReservationStatus", 404, "Reservation not found", {})
            /\ UNCHANGED reservations
       ELSE /\ reservations' = [reservations EXCEPT
                  ![id].status = status,
                  ![id].totalPrice = TotalPrice(reservations[id])]
            /\ resp' = Ok("updateReservationStatus", 200)
  /\ UNCHANGED <<states, cities, locations, users, cars, nextId, now, pc, doc>>

\* updateReservationStatus: findByIdAndUpdate(id, {status}, {new: true}),
\* without runValidators.
UpdateReservationStatus(id, status) ==
  /\ IF FindById(reservations, id) = {}
       THEN /\ resp' = Response("updateReservationStatus", 404, "Reservation not found", {})
            /\ UNCHANGED reservations
       ELSE /\ reservations' = [reservations EXCEPT ![id].status = status]
            /\ resp' = Ok("updateReservationStatus", 200)
  /\ UNCHANGED <<states, cities, locations, users, cars, nextId, now, pc, doc>>

-----------------------------------------------------------------------------
(* City, Location and Car models.                                          *)

\* new City({name, stateId}), the name through its setters.
NewCity(name, stateId) == [name |-> NameSetter(name), stateId |-> stateId]

\* The schema validators of a City: the set of paths that fail.
CityValidate(d) ==
  {p \in {"name", "stateId"} :
     \/ p = "name" /\ (Len(d.name) < 2 \/ Len(d.name) > 100)
     \/ p = "stateId" /\ FindById(states, d.stateId) = {}}

\* A collection without the unique index on {stateId, name}.
CityDuplicatesNoIndex(d, self) == {}

\* The unique index {stateId: 1, name: 1}: the documents other than self
\* that hold the same pair.
CityDuplicates(d, self) ==
  {i \in DOMAIN cities \ {self} :
     cities[i].stateId = d.stateId /\ cities[i].name = d.name}

NewLocation(cityId, userId) ==
  [cityId |-> cityId, userId |-> userId, deleted |-> NullDate]

\* The schema validators of a Location: the set of paths that fail.
LocationValidate(d) ==
  {p \in {"cityId", "userId"} :
     \/ p = "cityId" /\ FindById(cities, d.cityId) = {}
     \/ p = "userId" /\ FindLiveById(users, d.userId) = {}}

\* new Car(req.body); registrationNumber has uppercase: true.
NewCar(locationId, price, reg) ==
  [locationId |-> locationId, priceByDay |-> price, registrationNumber |-> UpperCase(reg)]

\* /^[A-Z0-9]{6,12}$/.test(v)
RegistrationFormat(v) ==
  /\ Len(v) >= 6
  /\ Len(v) <= 12
  /\ \A i \in 1..Len(v) : v[i] \in UpperLetters \cup Digits

\* The validators of the Car paths in fields: the set of paths that fail.
CarValidate(d, fields) ==
  {p \in fields :
     \/ p = "locationId" /\ FindLiveById(locations, d.locationId) = {}
     \/ p = "priceByDay" /\ d.priceByDay < 1
     \/ p = "registrationNumber" /\ ~RegistrationFormat(d.registrationNumber)}

\* A collection without the unique index.
CarDuplicatesNoIndex(d, self) == {}

\* The unique index on registrationNumber.
CarDuplicates(d, self) ==
  {i \in DOMAIN cars \ {self} : cars[i].registrationNumber = d.registrationNumber}

-----------------------------------------------------------------------------
(* City, Location, Car and User controllers, each request run to           *)
(* completion.                                                             *)

\* createCity: State.exists, then new City(...).save() with its validators,
\* its pre('save') hook and the unique index.
CreateCity(name, stateId) ==
  LET d == NewCity(name, stateId)
      errs == CityValidate(d)
  IN IF FindById(states, stateId) = {}
       THEN /\ resp' = Response("createCity", 400, "Invalid state", {})
            /\ UNCHANGED <<store, now, pc, doc>>
       ELSE IF errs # {}
         THEN /\ resp' = HandleErrors("createCity", ValidationError(errs))
              /\ UNCHANGED <<store, now, pc, doc>>
         ELSE IF CityDuplicates(d, NoId) # {}
           THEN /\ resp' = HandleErrors("createCity", DuplicateKeyError)
                /\ UNCHANGED <<store, now, pc, doc>>
           ELSE /\ cities' = (nextId :> d) @@ cities
                /\ nextId' = nextId + 1
                /\ resp' = Ok("createCity", 201)
                /\ UNCHANGED <<states, locations, users, cars, reservations, now, pc, doc>>

\* createLocation: City.findById and User.findById, then save().
CreateLocation(cityId, userId) ==
  LET d == NewLocation(cityId, userId)
      errs == LocationValidate(d)
  IN IF FindById(cities, cityId) = {}
       THEN /\ resp' = Response("createLocation", 400, "Invalid city", {})
            /\ UNCHANGED <<store, now, pc, doc>>
       ELSE IF FindLiveById(users, userId) = {}
         THEN /\ resp' = Response("createLocation", 400, "Invalid user", {})
              /\ UNCHANGED <<store, now, pc, doc>>
         ELSE IF errs # {}
           THEN /\ resp' = HandleErrors("createLocation", ValidationError(errs))
                /\ UNCHANGED <<store, now, pc, doc>>
           ELSE /\ locations' = (nextId :> d) @@ locations
                /\ nextId' = nextId + 1
                /\ resp' = Ok("createLocation", 201)
                /\ UNCHANGED <<states, cities, users, cars, reservations, now, pc, doc>>

\* A soft delete that also removes the cars of the location.
SoftDeleteLocationCascade(id) ==
  IF FindLiveById(locations, id) = {}
    THEN /\ resp' = Response("softDeleteLocation", 404, "Location not found", {})
         /\ UNCHANGED <<store, now, pc, doc>>
    ELSE /\ locations' = [locations EXCEPT ![id].deleted = <<now>>]
         /\ cars' = [c \in {x \in DOMAIN cars : cars[x].locationId # id} |-> cars[c]]
         /\ resp' = Ok("softDeleteLocation", 200)
         /\ UNCHANGED <<states, cities, users, reservations, nextId, now, pc, doc>>

\* softDeleteLocation: findByIdAndUpdate(id, {deleted: new Date()}), a
\* findOneAndUpdate, so through the pre(/^find/) hook.
SoftDeleteLocation(id) ==
  IF FindLiveById(locations, id) = {}
    THEN /\ resp' = Response("softDeleteLocation", 404, "Location not found", {})
         /\ UNCHANGED <<store, now, pc, doc>>
    ELSE /\ locations' = [locations EXCEPT ![id].deleted = <<now>>]
         /\ resp' = Ok("softDeleteLocation", 200)
         /\ UNCHANGED <<states, cities, users, cars, reservations, nextId, now, pc, doc>>

\* softDeleteUser: the same update on User, then populate('city user') of
\* paths the User schema does not have: ignored or refused after the update,
\* by the mongoose version installed.
SoftDeleteUser(id) ==
  IF FindLiveById(users, id) = {}
    THEN /\ resp' = Response("softDeleteUser", 404, "User not found", {})
         /\ UNCHANGED <<store, now, pc, doc>>
    ELSE /\ users' = [users EXCEPT ![id].deleted = <<now>>]
         /\ \/ resp' = Ok("softDeleteUser", 200)
            \/ resp' = HandleErrors("softDeleteUser", PlainError("Cannot populate path"))
         /\ UNCHANGED <<states, cities, locations, cars, reservations, nextId, now, pc, doc>>

\* createCar: Location.findById, then new Car(req.body).save() with its
\* validators, its pre('save') hook and the unique index.
CreateCar(locationId, price, reg) ==
  LET d == NewCar(locationId, price, reg)
      errs == CarValidate(d, {"locationId", "priceByDay", "registrationNumber"})
  IN IF FindLiveById(locations, locationId) = {}
       THEN /\ resp' = Response("createCar", 400, "Invalid location", {})
            /\ UNCHANGED <<store, now, pc, doc>>
       ELSE IF errs # {}
         THEN /\ resp' = HandleErrors("createCar", ValidationError(errs))
              /\ UNCHANGED <<store, now, pc, doc>>
         ELSE IF CarDuplicates(d, NoId) # {}
           THEN /\ resp' = HandleErrors("createCar", DuplicateKeyError)
                /\ UNCHANGED <<store, now, pc, doc>>
           ELSE /\ cars' = (nextId :> d) @@ cars
                /\ nextId' = nextId + 1
                /\ resp' = Ok("createCar", 201)
                /\ UNCHANGED <<states, cities, locations, users, reservations, now, pc, doc>>

\* The update document cast through the schema: the uppercase setter runs
\* on a registrationNumber.
CastCarUpdate(updates) ==
  [f \in DOMAIN updates |->
     IF f = "registrationNumber" THEN UpperCase(updates[f]) ELSE updates[f]]

\* The car with the updated paths replaced.
ApplyUpdate(old, updates) ==
  [f \in DOMAIN old |-> IF f \in DOMAIN updates THEN updates[f] ELSE old[f]]

\* updateCar: Location.findById when locationId is given, then
\* findByIdAndUpdate(id, updates, {new: true, runValidators: true}).
UpdateCar(id, updates) ==
  LET u == CastCarUpdate(updates)
      blank == NewCar(NoId, 0, <<>>)
      errs == CarValidate(ApplyUpdate(blank, u), DOMAIN u)
  IN IF "locationId" \in DOMAIN updates /\ FindLiveById(locations, updates.locationId) = {}
       THEN /\ resp' = Response("updateCar", 400, "Invalid location", {})
            /\ UNCHANGED <<store, now, pc, doc>>
       ELSE IF errs # {}
         THEN /\ resp' = HandleErrors("updateCar", ValidationError(errs))
              /\ UNCHANGED <<store, now, pc, doc>>
         ELSE IF FindById(cars, id) = {}
           THEN /\ resp' = Response("updateCar", 404, "Car not found", {})
                /\ UNCHANGED <<store, now, pc, doc>>
           ELSE IF CarDuplicates(ApplyUpdate(cars[id], u), id) # {}
             THEN /\ resp' = HandleErrors("updateCar", DuplicateKeyError)
                  /\ UNCHANGED <<store, now, pc, doc>>
             ELSE /\ cars' = [cars EXCEPT ![id] = ApplyUpdate(cars[id], u)]
                  /\ resp' = Ok("updateCar", 200)
                  /\ UNCHANGED <<states, cities, locations, users, reservations, nextId, now, pc, doc>>

\* The clock advances.
Tick ==
  /\ now < MaxClock * HalfDay
  /\ now' = now + HalfDay
  /\ UNCHANGED <<store, resp, pc, doc>>

-----------------------------------------------------------------------------
(* The initial database, as the model tests set it up before their cases:  *)
(* a state, a city in it, a user, a location of that user in the city, and *)
(* cars at the location.                                                   *)

FixtureIds == 6

Idle == [p \in Procs |-> "idle"]

NoDoc == [p \in Procs |-> NewReservation(NoId, NoId, 0, 0)]

Init ==
  /\ states = (1 :> [name |-> <<"C", "a">>])
  /\ cities = (2 :> [name |-> <<"A", "b">>, stateId |-> 1])
  /\ users = (3 :> [deleted |-> NullDate])
  /\ locations = (4 :> [cityId |-> 2, userId |-> 3, deleted |-> NullDate])
  /\ cars = (5 :> NewCar(4, 100, <<"A", "B", "C", "1", "2", "3">>))
         @@ (6 :> NewCar(4, 100, <<"A", "B", "C", "1", "2", "4">>))
  /\ reservations = EmptyCollection
  /\ nextId = FixtureIds + 1
  /\ now = 0
  /\ resp = Ok("none", 0)
  /\ pc = Idle
  /\ doc = NoDoc

\* A request is served unless it would create a document past the bound.
CanCreate == nextId' = nextId \/ nextId <= FixtureIds + MaxCreated

-----------------------------------------------------------------------------
(* The reservation scheduler, one request at a time.                       *)

NextSched ==
  \/ \E c \in DOMAIN cars, u \in DOMAIN users, s, e \in DateInputs :
       CreateReservation(c, u, s, e) /\ CanCreate
  \/ \E id \in DOMAIN reservations \cup {NoId}, status \in StatusInputs :
       UpdateReservationStatus(id, status)
  \/ Tick

SpecSched == Init /\ [][NextSched]_vars

-----------------------------------------------------------------------------
(* Pricing: reservations are created and confirmed while the daily prices  *)
(* of the cars change.                                                     *)

NextPrice ==
  \/ \E c \in DOMAIN cars, u \in DOMAIN users, s \in DateInputs \ {0} :
       \E e \in {x \in DateInputs : x > s} :
         CreateReservation(c, u, s, e) /\ CanCreate
  \/ \E id \in DOMAIN reservations, status \in {"confirmed"} :
       UpdateReservationStatus(id, status)
  \/ \E id \in DOMAIN cars \cup {NoId}, price \in PriceInputs \cup {0} :
       UpdateCar(id, [priceByDay |-> price])

SpecPrice == Init /\ [][NextPrice]_vars

-----------------------------------------------------------------------------
(* Date validation: requests with every pair of dates, as time passes.     *)

NextDates ==
  \/ \E c \in DOMAIN cars, u \in DOMAIN users, s, e \in DateInputs :
       CreateReservation(c, u, s, e) /\ CanCreate
  \/ Tick

SpecDates == Init /\ [][NextDates]_vars

-----------------------------------------------------------------------------
(* References: documents are created with references that resolve, that    *)
(* never existed, or that are soft-deleted.                                *)

\* The ids a request may give for a reference into coll.
RefInputs(coll) == DOMAIN coll \cup {NoId}

NameInputs == {<<"a", "b">>, <<" ", "b", "C">>}

RegInputs == {<<"a", "b", "c", "1", "2", "3">>, <<"B", "B", "C", "1", "2", "3">>}

NextRef ==
  \/ \E name \in NameInputs, stateId \in RefInputs(states) :
       CreateCity(name, stateId) /\ CanCreate
  \/ \E cityId \in RefInputs(cities), userId \in RefInputs(users) :
       CreateLocation(cityId, userId) /\ CanCreate
  \/ \E locationId \in RefInputs(locations), reg \in RegInputs :
       CreateCar(locationId, 100, reg) /\ CanCreate
  \/ \E c \in RefInputs(cars), u \in RefInputs(users) :
       CreateReservation(c, u, HalfDay, MsPerDay) /\ CanCreate
  \/ \E id \in RefInputs(locations) : SoftDeleteLocation(id)
  \/ \E id \in RefInputs(users) : SoftDeleteUser(id)

SpecRef == Init /\ [][NextRef]_vars

-----------------------------------------------------------------------------
(* Concurrent createReservation requests: save() of each request runs its  *)
(* validation, its two pre('save') hooks and its insert as separate steps, *)
(* and the steps of the requests interleave.                               *)

\* The requests in flight.
InFlight == {p \in Procs : pc[p] # "idle"}

\* The request arrives and save() validates the document.
StartSave(p, c, u, s, e) ==
  LET d == NewReservation(c, u, s, e)
      errs == ReservationValidate(d)
  IN /\ pc[p] = "idle"
     /\ IF errs # {}
          THEN /\ resp' = ReservationHandleErrors("createReservation", ValidationError(errs))
               /\ UNCHANGED <<pc, doc>>
          ELSE /\ nextId + Cardinality(InFlight) <= FixtureIds + MaxCreated
               /\ pc' = [pc EXCEPT ![p] = "price"]
               /\ doc' = [doc EXCEPT ![p] = d]
               /\ UNCHANGED resp
     /\ UNCHANGED <<store, now>>

\* First pre('save') hook of the request.
PriceHook(p) ==
  /\ pc[p] = "price"
  /\ IF FindById(cars, doc[p].carId) = {}
       THEN /\ resp' = ReservationHandleErrors("createReservation", NullCarError)
            /\ pc' = [pc EXCEPT ![p] = "idle"]
            /\ doc' = [doc EXCEPT ![p] = NoDoc[p]]
       ELSE /\ doc' = [doc EXCEPT ![p].totalPrice = TotalPrice(doc[p])]
            /\ pc' = [pc EXCEPT ![p] = "overlap"]
            /\ UNCHANGED resp
  /\ UNCHANGED <<store, now>>

\* Second pre('save') hook of the request: the overlap query.
OverlapHook(p) ==
  /\ pc[p] = "overlap"
  /\ IF Overlapping(doc[p]) # {}
       THEN /\ resp' = ReservationHandleErrors("createReservation", AlreadyReservedError)
            /\ pc' = [pc EXCEPT ![p] = "idle"]
            /\ doc' = [doc EXCEPT ![p] = NoDoc[p]]
       ELSE /\ pc' = [pc EXCEPT ![p] = "insert"]
            /\ UNCHANGED <<resp, doc>>
  /\ UNCHANGED <<store, now>>

\* The insert of the request and its 201.
Insert(p) ==
  /\ pc[p] = "insert"
  /\ reservations' = (nextId :> doc[p]) @@ reservations
  /\ nextId' = nextId + 1
  /\ resp' = Ok("createReservation", 201)
  /\ pc' = [pc EXCEPT ![p] = "idle"]
  /\ doc' = [doc EXCEPT ![p] = NoDoc[p]]
  /\ UNCHANGED <<states, cities, locations, users, cars, now>>

NextRace ==
  \/ \E p \in Procs, c \in DOMAIN cars, u \in DOMAIN users, s, e \in DateInputs :
       StartSave(p, c, u, s, e)
  \/ \E p \in Procs : PriceHook(p)
  \/ \E p \in Procs : OverlapHook(p)
  \/ \E p \in Procs : Insert(p)

SpecRace == Init /\ [][NextRace]_vars

-----------------------------------------------------------------------------
(* State model and controller, and the update of a City.                   *)

\* new State(req.body), the name through its setters.
NewState(name) == [name |-> NameSetter(name)]

\* The schema validators of a State: the set of paths that fail.
StateValidate(d) ==
  {p \in {"name"} : Len(d.name) < 2 \/ Len(d.name) > 50}

\* The unique index on State.name: the documents other than self with the
\* same name.
StateDuplicates(d, self) ==
  {i \in DOMAIN states \ {self} : states[i].name = d.name}

\* createState: new State(req.body).save().
CreateState(name) ==
  LET d == NewState(name)
      errs == StateValidate(d)
  IN IF errs # {}
       THEN /\ resp' = HandleErrors("createState", ValidationError(errs))
            /\ UNCHANGED <<store, now, pc, doc>>
       ELSE IF StateDuplicates(d, NoId) # {}
         THEN /\ resp' = HandleErrors("createState", DuplicateKeyError)
              /\ UNCHANGED <<store, now, pc, doc>>
         ELSE /\ states' = (nextId :> d) @@ states
              /\ nextId' = nextId + 1
              /\ resp' = Ok("createState", 201)
              /\ UNCHANGED <<cities, locations, users, cars, reservations, now, pc, doc>>

\* pre('findOneAndUpdate') of State: update.name through the same replace.
StatePreFindOneAndUpdate(name) == ProperCase(name)

\* updateState: findByIdAndUpdate(id, req.body, {new, runValidators}) with
\* orFail(): the hook, the setters on the cast update, the update
\* validators, then the write.
UpdateState(id, name) ==
  LET d == NewState(StatePreFindOneAndUpdate(name))
      errs == StateValidate(d)
  IN IF errs # {}
       THEN /\ resp' = HandleErrors("updateState", ValidationError(errs))
            /\ UNCHANGED <<store, now, pc, doc>>
       ELSE IF FindById(states, id) = {}
         THEN /\ resp' = HandleErrors("updateState", PlainError("No document found for query"))
              /\ UNCHANGED <<store, now, pc, doc>>
         ELSE IF StateDuplicates(d, id) # {}
           THEN /\ resp' = HandleErrors("updateState", DuplicateKeyError)
                /\ UNCHANGED <<store, now, pc, doc>>
           ELSE /\ states' = [states EXCEPT ![id] = d]
                /\ resp' = Ok("updateState", 200)
                /\ UNCHANGED <<cities, locations, users, cars, reservations, nextId, now, pc, doc>>

\* The update document of a City cast through the schema: the setters run
\* on a name.
CastCityUpdate(updates) ==
  [f \in DOMAIN updates |->
     IF f = "name" THEN NameSetter(updates[f]) ELSE updates[f]]

\* updateCity: the body must hold name or stateId and nothing else (the
\* model hands it nothing else); State.exists when stateId is given; then
\* findByIdAndUpdate(id, updates, {new, runValidators}).
UpdateCity(id, updates) ==
  LET u == CastCityUpdate(updates)
      blank == [name |-> <<>>, stateId |-> NoId]
      errs == {p \in CityValidate(ApplyUpdate(blank, u)) : p \in DOMAIN u}
  IN IF DOMAIN updates = {}
       THEN /\ resp' = Response("updateCity", 400, "Request body is required", {})
            /\ UNCHANGED <<store, now, pc, doc>>
       ELSE IF "stateId" \in DOMAIN updates /\ FindById(states, updates.stateId) = {}
         THEN /\ resp' = Response("updateCity", 400, "Invalid state", {})
              /\ UNCHANGED <<store, now, pc, doc>>
         ELSE IF errs # {}
           THEN /\ resp' = HandleErrors("updateCity", ValidationError(errs))
                /\ UNCHANGED <<store, now, pc, doc>>
           ELSE IF FindById(cities, id) = {}
             THEN /\ resp' = Response("updateCity", 404, "City not found", {})
                  /\ UNCHANGED <<store, now, pc, doc>>
             ELSE IF CityDuplicates(ApplyUpdate(cities[id], u), id) # {}
               THEN /\ resp' = HandleErrors("updateCity", DuplicateKeyError)
                    /\ UNCHANGED <<store, now, pc, doc>>
               ELSE /\ cities' = [cities EXCEPT ![id] = ApplyUpdate(cities[id], u)]
                    /\ resp' = Ok("updateCity", 200)
                    /\ UNCHANGED <<states, locations, users, cars, reservations, nextId, now, pc, doc>>

-----------------------------------------------------------------------------
(* Deletes: the deleteMany of each model with its pre('deleteMany') hook,  *)
(* and the delete controllers.                                             *)

\* The collection without the documents ids.
Remove(coll, ids) == [i \in DOMAIN coll \ ids |-> coll[i]]

\* The documents matched by {stateId: {$in: ss}}, {cityId: {$in: cs}},
\* {locationId: {$in: ls}} and {carId: {$in: crs}}, before any hook.
CitiesOfStates(ss) == {c \in DOMAIN cities : cities[c].stateId \in ss}

LocationsOfCities(cs) == {l \in DOMAIN locations : locations[l].cityId \in cs}

CarsOfLocations(ls) == {c \in DOMAIN cars : cars[c].locationId \in ls}

ReservationsOfCars(crs) == {r \in DOMAIN reservations : reservations[r].carId \in crs}

\* Car.deleteMany on the cars crs: its hook finds them and deletes their
\* reservations, then the cars go.
CarDeleteMany(crs) ==
  [cars |-> Remove(cars, crs),
   reservations |-> Remove(reservations, ReservationsOfCars(crs))]

\* A hook that deletes no car.
LocationDeleteManyNoCascade(ls) ==
  [locations |-> Remove(locations, ls), cars |-> cars, reservations |-> reservations]

\* Location.deleteMany on the locations ls: its hook finds them with
\* this.model.find, a query through pre(/^find/), and deletes the cars of
\* those it found; the deleteMany itself is no find and removes all of ls.
LocationDeleteMany(ls) ==
  LET found == ls \cap SoftDeleteFilter(locations, FALSE, FALSE)
      below == CarDeleteMany(CarsOfLocations(found))
  IN [locations |-> Remove(locations, ls),
      cars |-> below.cars,
      reservations |-> below.reservations]

\* City.deleteMany on the cities cs.
CityDeleteMany(cs) ==
  LET below == LocationDeleteMany(LocationsOfCities(cs))
  IN [cities |-> Remove(cities, cs),
      locations |-> below.locations,
      cars |-> below.cars,
      reservations |-> below.reservations]

\* State.deleteMany({_id: {$in: ss}}), a call of the model tests and of the
\* cleanup script.
DeleteManyStates(ss) ==
  LET found == ss \cap DOMAIN states
      below == CityDeleteMany(CitiesOfStates(found))
  IN /\ states' = Remove(states, found)
     /\ cities' = below.cities
     /\ locations' = below.locations
     /\ cars' = below.cars
     /\ reservations' = below.reservations
     /\ resp' = Ok("State.deleteMany", 0)
     /\ UNCHANGED <<users, nextId, now, pc, doc>>

\* City.deleteMany({_id: {$in: cs}}).
DeleteManyCities(cs) ==
  LET below == CityDeleteMany(cs \cap DOMAIN cities)
  IN /\ cities' = below.cities
     /\ locations' = below.locations
     /\ cars' = below.cars
     /\ reservations' = below.reservations
     /\ resp' = Ok("City.deleteMany", 0)
     /\ UNCHANGED <<states, users, nextId, now, pc, doc>>

\* deleteState: State.findByIdAndDelete; pre('findOneAndDelete') looks the
\* state up, fails with 'Document not found' or deletes its cities.
DeleteState(id) ==
  IF FindById(states, id) = {}
    THEN /\ resp' = HandleErrors("deleteState", PlainError("Document not found"))
         /\ UNCHANGED <<store, now, pc, doc>>
    ELSE LET below == CityDeleteMany(CitiesOfStates({id}))
         IN /\ states' = Remove(states, {id})
            /\ cities' = below.cities
            /\ locations' = below.locations
            /\ cars' = below.cars
            /\ reservations' = below.reservations
            /\ resp' = Ok("deleteState", 204)
            /\ UNCHANGED <<users, nextId, now, pc, doc>>

\* deleteCity: City.findByIdAndDelete; the City schema has hooks on
\* deleteOne and deleteMany, none on findOneAndDelete.
DeleteCity(id) ==
  IF FindById(cities, id) = {}
    THEN /\ resp' = Response("deleteCity", 404, "City not found", {})
         /\ UNCHANGED <<store, now, pc, doc>>
    ELSE /\ cities' = Remove(cities, {id})
         /\ resp' = Ok("deleteCity", 204)
         /\ UNCHANGED <<states, locations, users, cars, reservations, nextId, now, pc, doc>>

\* deleteLocation: Location.findByIdAndDelete, through pre(/^find/).
DeleteLocation(id) ==
  IF FindLiveById(locations, id) = {}
    THEN /\ resp' = Response("deleteLocation", 404, "Location not found", {})
         /\ UNCHANGED <<store, now, pc, doc>>
    ELSE /\ locations' = Remove(locations, {id})
         /\ resp' = Ok("deleteLocation", 204)
         /\ UNCHANGED <<states, cities, users, cars, reservations, nextId, now, pc, doc>>

\* deleteCar: Car.findByIdAndDelete.
DeleteCar(id) ==
  IF FindById(cars, id) = {}
    THEN /\ resp' = Response("deleteCar", 404, "Car not found", {})
         /\ UNCHANGED <<store, now, pc, doc>>
    ELSE /\ cars' = Remove(cars, {id})
         /\ resp' = Ok("deleteCar", 204)
         /\ UNCHANGED <<states, cities, locations, users, reservations, nextId, now, pc, doc>>

\* deleteUser: User.findByIdAndDelete, through pre(/^find/).
DeleteUser(id) ==
  IF FindLiveById(users, id) = {}
    THEN /\ resp' = Response("deleteUser", 404, "User not found", {})
         /\ UNCHANGED <<store, now, pc, doc>>
    ELSE /\ users' = Remove(users, {id})
         /\ resp' = Ok("deleteUser", 204)
         /\ UNCHANGED <<states, cities, locations, cars, reservations, nextId, now, pc, doc>>

-----------------------------------------------------------------------------
(* The hierarchy: documents are created at every level, soft-deleted and   *)
(* deleted, one at a time and in bulk.                                     *)

NextCascade ==
  \/ CreateState(<<"b", "c">>) /\ CanCreate
  \/ \E stateId \in DOMAIN states :
       CreateCity(<<"a", "b">>, stateId) /\ CanCreate
  \/ \E cityId \in DOMAIN cities, userId \in DOMAIN users :
       CreateLocation(cityId, userId) /\ CanCreate
  \/ \E locationId \in DOMAIN locations :
       CreateCar(locationId, 100, <<"a", "b", "c", "1", "2", "1">>) /\ CanCreate
  \/ \E c \in DOMAIN cars, u \in DOMAIN users :
       CreateReservation(c, u, HalfDay, MsPerDay) /\ CanCreate
  \/ \E id \in DOMAIN locations : SoftDeleteLocation(id)
  \/ \E id \in DOMAIN users : SoftDeleteUser(id)
  \/ \E id \in RefInputs(states) : DeleteState(id)
  \/ \E id \in RefInputs(cities) : DeleteCity(id)
  \/ \E id \in RefInputs(locations) : DeleteLocation(id)
  \/ \E id \in RefInputs(cars) : DeleteCar(id)
  \/ \E id \in RefInputs(users) : DeleteUser(id)
  \/ \E ss \in SUBSET DOMAIN states : DeleteManyStates(ss)
  \/ \E cs \in SUBSET DOMAIN cities : DeleteManyCities(cs)

SpecCascade == Init /\ [][NextCascade]_vars

-----------------------------------------------------------------------------
(* Names: states and cities are created and renamed with names that differ *)
(* in letter case and in surrounding whitespace.                           *)

CaseInputs ==
  {<<"c", "a">>, <<" ", "a", "B", " ">>, <<"é", "a">>, <<"É", "a">>, <<"b">>}

\* The bodies of PUT /cities/:id: a name, a stateId, or both.
CityUpdates ==
  {[name |-> n] : n \in CaseInputs}
    \cup {[stateId |-> s] : s \in RefInputs(states)}
    \cup {[name |-> n, stateId |-> s] : n \in CaseInputs, s \in DOMAIN states}

NextNames ==
  \/ \E name \in CaseInputs : CreateState(name) /\ CanCreate
  \/ \E id \in RefInputs(states), name \in CaseInputs : UpdateState(id, name)
  \/ \E name \in CaseInputs, stateId \in DOMAIN states :
       CreateCity(name, stateId) /\ CanCreate
  \/ \E id \in RefInputs(cities), updates \in CityUpdates : UpdateCity(id, updates)

SpecNames == Init /\ [][NextNames]_vars

-----------------------------------------------------------------------------
(* Registration numbers: cars are created and re-registered.               *)

RegCases ==
  RegInputs \cup {<<"b", "B", "c", "1", "2", "4">>, <<"A", "B", "C", "1", "2">>,
                  <<"a", "b", "_", "1", "2", "3">>}

NextReg ==
  \/ \E locationId \in DOMAIN locations, reg \in RegCases :
       CreateCar(locationId, 100, reg) /\ CanCreate
  \/ \E id \in RefInputs(cars), reg \in RegCases :
       UpdateCar(id, [registrationNumber |-> reg])

SpecReg == Init /\ [][NextReg]_vars

-----------------------------------------------------------------------------
(* Status: PATCH /reservations/:id/status hands req.body.status to the     *)
(* controller as it came, a value of the enum or any other string.         *)

StatusBodies == StatusEnum \cup {"archived"}

NextStatus ==
  \/ \E c \in DOMAIN cars, u \in DOMAIN users, s \in {HalfDay, MsPerDay} :
       CreateReservation(c, u, s, s + HalfDay) /\ CanCreate
  \/ \E id \in RefInputs(reservations), status \in StatusBodies :
       UpdateReservationStatus(id, status)

SpecStatus == Init /\ [][NextStatus]_vars

-----------------------------------------------------------------------------
(* The claims on the scheduler.                                            *)

\* Half-open intervals [startDate, endDate) of two reservations share an instant.
IntervalsOverlap(r1, r2) ==
  r1.startDate < r2.endDate /\ r2.startDate < r1.endDate

\* The pairs of distinct reservations of one car, neither cancelled.
ActivePairs ==
  {pair \in (DOMAIN reservations) \X (DOMAIN reservations) :
     /\ pair[1] # pair[2]
     /\ reservations[pair[1]].carId = reservations[pair[2]].carId
     /\ reservations[pair[1]].status # "cancelled"
     /\ reservations[pair[2]].status # "cancelled"}

\* C1: with requests run one at a time, no two distinct reservations of the
\* same car that are not cancelled have overlapping [startDate, endDate).
C1_NoDoubleBooking ==
  \A pair \in ActivePairs :
    ~IntervalsOverlap(reservations[pair[1]], reservations[pair[2]])

\* C1 witness: a car holds two active reservations, one ending where the other
\* starts, and a status update has just been answered.
C1_Witness ==
  /\ resp.op = "updateReservationStatus"
  /\ resp.code = 200
  /\ \E pair \in ActivePairs :
       reservations[pair[1]].endDate = reservations[pair[2]].startDate

\* A store in which no reservation is cancelled.
NoneCancelled == \A r \in DOMAIN reservations : reservations[r].status # "cancelled"

\* Some stored reservation of car c meets [s, e).
Clash(c, s, e) ==
  \E r \in DOMAIN reservations :
    /\ reservations[r].carId = c
    /\ reservations[r].startDate < e
    /\ s < reservations[r].endDate

\* C3: with no reservation cancelled, a createReservation with valid dates and
\* references is answered 409 "already reserved" and adds nothing exactly when
\* a reservation r of the same car has r.startDate < e and s < r.endDate;
\* otherwise (touching intervals, other cars) it is stored.
C3_ConflictIffOverlap ==
  [][\A c \in DOMAIN cars, u \in DOMAIN users, s \in DateInputs, e \in DateInputs :
       (/\ resp'.op = "createReservation"
        /\ NoneCancelled
        /\ users[u].deleted = NullDate
        /\ s > now
        /\ e > s
        /\ CreateReservation(c, u, s, e))
       => IF Clash(c, s, e)
            THEN /\ resp'.code = 409
                 /\ resp'.error = "Car already reserved for these dates"
                 /\ reservations' = reservations
            ELSE /\ resp'.code = 201
                 /\ DOMAIN reservations' = DOMAIN reservations \cup {nextId}
                 /\ reservations'[nextId].carId = c
                 /\ reservations'[nextId].startDate = s
                 /\ reservations'[nextId].endDate = e
                 /\ \A r \in DOMAIN reservations : reservations'[r] = reservations[r]]_vars

\* C3 witness: a request was refused as already reserved while the other car
\* holds a reservation over the same dates and nothing is cancelled.
C3_Witness ==
  /\ resp.op = "createReservation"
  /\ resp.code = 409
  /\ NoneCancelled
  /\ \E a, b \in DOMAIN reservations :
       /\ reservations[a].carId # reservations[b].carId
       /\ IntervalsOverlap(reservations[a], reservations[b])

\* Every reservation of car c that meets [s, e) is cancelled, and one exists.
ClashesOnlyCancelled(c, s, e) ==
  /\ \E r \in DOMAIN reservations :
       /\ reservations[r].carId = c
       /\ reservations[r].startDate < e
       /\ s < reservations[r].endDate
  /\ \A r \in DOMAIN reservations :
       (/\ reservations[r].carId = c
        /\ reservations[r].startDate < e
        /\ s < reservations[r].endDate) => reservations[r].status = "cancelled"

\* C4: a createReservation with valid dates and references whose interval
\* meets only cancelled reservations of the car is accepted.
C4_CancelledFreesInterval ==
  [][\A c \in DOMAIN cars, u \in DOMAIN users, s \in DateInputs, e \in DateInputs :
       (/\ resp'.op = "createReservation"
        /\ users[u].deleted = NullDate
        /\ s > now
        /\ e > s
        /\ ClashesOnlyCancelled(c, s, e)
        /\ CreateReservation(c, u, s, e))
       => resp'.code = 201 /\ nextId \in DOMAIN reservations']_vars

\* The status changes the scheduler allows.
LegalTransitions ==
  {<<"pending", "confirmed">>, <<"pending", "cancelled">>,
   <<"confirmed", "completed">>, <<"confirmed", "cancelled">>}

\* C5: a step changes the status of a reservation only along pending ->
\* confirmed | cancelled or confirmed -> completed | cancelled.
C5_OnlyLegalTransitions ==
  [][\A r \in DOMAIN reservations \cap DOMAIN reservations' :
       reservations'[r].status # reservations[r].status
         => <<reservations[r].status, reservations'[r].status>> \in LegalTransitions]_vars

\* C8: a createReservation whose startDate is not after the clock or whose
\* endDate is not after its startDate is answered 400 with a ValidationError
\* on that date, and stores nothing.
C8_DatesValidated ==
  [][\A s \in DateInputs, e \in DateInputs :
       (/\ resp'.op = "createReservation"
        /\ (s <= now \/ e <= s)
        /\ \E c \in DOMAIN cars, u \in DOMAIN users : CreateReservation(c, u, s, e))
       => /\ resp'.code = 400
          /\ resp'.error = "ValidationError"
          /\ (s <= now) = ("startDate" \in resp'.paths)
          /\ (e <= s) = ("endDate" \in resp'.paths)
          /\ reservations' = reservations]_vars

\* C8 witness: with the clock advanced and a reservation stored, a request
\* was refused for its startDate alone.
C8_Witness ==
  /\ resp.op = "createReservation"
  /\ resp.code = 400
  /\ resp.paths = {"startDate"}
  /\ now > 0
  /\ reservations # EmptyCollection

-----------------------------------------------------------------------------
(* The claims on the price.                                                *)

\* The least number of whole days that cover ms milliseconds.
DaysCharged(ms) ==
  CHOOSE n \in 0..(MaxDate + 1) : n * MsPerDay >= ms /\ (n - 1) * MsPerDay < ms

\* C6: a reservation is stored with totalPrice = ceil(days between its dates)
\* times the priceByDay its car has when it is created.
C6_PriceIsDaysTimesRate ==
  [][\A r \in DOMAIN reservations' \ DOMAIN reservations :
       reservations'[r].totalPrice =
         DaysCharged(reservations'[r].endDate - reservations'[r].startDate)
           * cars[reservations'[r].carId].priceByDay]_vars

\* C6 witness: a day and a half at 150 a day is stored as 300.
C6_Witness ==
  \E r \in DOMAIN reservations :
    /\ reservations[r].endDate - reservations[r].startDate = 3 * HalfDay
    /\ reservations[r].totalPrice = 300

\* C7: no step changes the totalPrice of a stored reservation.
C7_PriceIsSnapshot ==
  [][\A r \in DOMAIN reservations \cap DOMAIN reservations' :
       reservations'[r].totalPrice = reservations[r].totalPrice]_vars

\* C7 witness: a confirmed reservation keeps the price of its creation after
\* the daily price of its car was changed.
C7_Witness ==
  \E r \in DOMAIN reservations :
    /\ reservations[r].status = "confirmed"
    /\ reservations[r].totalPrice # TotalPrice(reservations[r])
    /\ resp.op = "updateReservationStatus"

-----------------------------------------------------------------------------
(* The claim on concurrent requests.                                       *)

\* C2: when createReservation requests for one car with overlapping dates
\* run concurrently, their overlap queries and inserts interleaved in any
\* order, at most one is accepted: no state holds two reservations of one car,
\* neither cancelled, whose [startDate, endDate) overlap.
C2_AtMostOneAccepted ==
  \A a \in DOMAIN reservations, b \in DOMAIN reservations :
    (/\ a < b
     /\ reservations[a].carId = reservations[b].carId
     /\ reservations[a].status # "cancelled"
     /\ reservations[b].status # "cancelled")
    => \/ reservations[a].endDate <= reservations[b].startDate
       \/ reservations[b].endDate <= reservations[a].startDate

-----------------------------------------------------------------------------
(* The claims on references.                                               *)

\* The id names no document of the collection, deleted or not.
Unresolved(coll, id) == id \notin DOMAIN coll

\* The reply is a 400 that names the reference: by its message, or as a
\* failing path of the ValidationError.
NamesReference(r, message, path) ==
  /\ r.code = 400
  /\ \/ r.error = message
     \/ r.error = "ValidationError" /\ path \in r.paths

\* C9: a create of a City, Location, Car or Reservation whose foreign key
\* (stateId; cityId or userId; locationId; carId or userId) names no existing
\* document is answered with an error naming that reference (or, for two
\* unresolved references of one Location, one of them), and leaves every
\* collection unchanged.
C9_InvalidReferenceRejected ==
  [][/\ \A name \in NameInputs, stateId \in RefInputs(states) :
          (/\ resp'.op = "createCity"
           /\ Unresolved(states, stateId)
           /\ CreateCity(name, stateId))
          => NamesReference(resp', "Invalid state", "stateId") /\ store' = store
     /\ \A cityId \in RefInputs(cities), userId \in RefInputs(users) :
          (/\ resp'.op = "createLocation"
           /\ (Unresolved(cities, cityId) \/ Unresolved(users, userId))
           /\ CreateLocation(cityId, userId))
          => /\ \/ Unresolved(cities, cityId) /\ NamesReference(resp', "Invalid city", "cityId")
                \/ Unresolved(users, userId) /\ NamesReference(resp', "Invalid user", "userId")
             /\ store' = store
     /\ \A locationId \in RefInputs(locations), reg \in RegInputs :
          (/\ resp'.op = "createCar"
           /\ Unresolved(locations, locationId)
           /\ CreateCar(locationId, 100, reg))
          => NamesReference(resp', "Invalid location", "locationId") /\ store' = store
     /\ \A c \in RefInputs(cars), u \in RefInputs(users) :
          (/\ resp'.op = "createReservation"
           /\ (Unresolved(cars, c) \/ Unresolved(users, u))
           /\ CreateReservation(c, u, HalfDay, MsPerDay))
          => /\ Unresolved(cars, c) => NamesReference(resp', "Invalid car reference", "carId")
             /\ Unresolved(users, u) => NamesReference(resp', "Invalid user reference", "userId")
             /\ store' = store]_vars

\* C9 witness: documents have been created, and a createReservation has just
\* been refused for both of its references.
C9_Witness ==
  /\ resp.op = "createReservation"
  /\ resp.code = 400
  /\ {"carId", "userId"} \subseteq resp.paths
  /\ nextId > FixtureIds + 1

\* The document is soft-deleted.
SoftDeleted(coll, id) == id \in DOMAIN coll /\ coll[id].deleted # NullDate

\* C10: a create of a Car whose locationId is a soft-deleted Location, or of
\* a Location or Reservation whose userId is a soft-deleted User, is refused
\* with the reply the same request gets for an id that never existed, and
\* stores nothing.
C10_SoftDeletedIsAbsent ==
  [][/\ \A locationId \in DOMAIN locations, reg \in RegInputs :
          (/\ resp'.op = "createCar"
           /\ SoftDeleted(locations, locationId)
           /\ CreateCar(locationId, 100, reg))
          => /\ resp' = Response("createCar", 400, "Invalid location", {})
             /\ store' = store
     /\ \A cityId \in RefInputs(cities), userId \in DOMAIN users :
          (/\ resp'.op = "createLocation"
           /\ SoftDeleted(users, userId)
           /\ CreateLocation(cityId, userId))
          => /\ resp' = Response("createLocation", 400,
                          IF Unresolved(cities, cityId) THEN "Invalid city" ELSE "Invalid user", {})
             /\ store' = store
     /\ \A c \in RefInputs(cars), u \in DOMAIN users :
          (/\ resp'.op = "createReservation"
           /\ SoftDeleted(users, u)
           /\ CreateReservation(c, u, HalfDay, MsPerDay))
          => /\ resp' = Response("createReservation", 400, "ValidationError",
                          {"userId"} \cup (IF Unresolved(cars, c) THEN {"carId"} ELSE {}))
             /\ store' = store]_vars

\* C10 witness: the location and the user of the fixture are both
\* soft-deleted and a createCar has just been refused for its location.
C10_Witness ==
  /\ resp = Response("createCar", 400, "Invalid location", {})
  /\ \E l \in DOMAIN locations : SoftDeleted(locations, l)
  /\ \E u \in DOMAIN users : SoftDeleted(users, u)

-----------------------------------------------------------------------------
(* The claims on deletes.                                                  *)

\* C11: after a deleteUser answered 204, no Location and no Reservation
\* references the deleted user.
C11_UserDeleteCascades ==
  [][\A id \in DOMAIN users :
       (/\ resp'.op = "deleteUser"
        /\ resp'.code = 204
        /\ DeleteUser(id))
       => /\ \A l \in DOMAIN locations' : locations'[l].userId # id
          /\ \A r \in DOMAIN reservations' : reservations'[r].userId # id]_vars

\* The documents beneath the cities cs, the locations ls and the cars crs,
\* soft-deleted or not.
BeneathCars(crs) ==
  [cities |-> {}, locations |-> {}, cars |-> {},
   reservations |-> {r \in DOMAIN reservations : reservations[r].carId \in crs}]

BeneathLocations(ls) ==
  LET crs == {c \in DOMAIN cars : cars[c].locationId \in ls}
  IN [BeneathCars(crs) EXCEPT !.cars = crs]

BeneathCities(cs) ==
  LET ls == {l \in DOMAIN locations : locations[l].cityId \in cs}
  IN [BeneathLocations(ls) EXCEPT !.locations = ls]

BeneathStates(ss) ==
  LET cs == {c \in DOMAIN cities : cities[c].stateId \in ss}
  IN [BeneathCities(cs) EXCEPT !.cities = cs]

\* None of the documents of sub is left after the step.
GoneNext(sub) ==
  /\ sub.cities \cap DOMAIN cities' = {}
  /\ sub.locations \cap DOMAIN locations' = {}
  /\ sub.cars \cap DOMAIN cars' = {}
  /\ sub.reservations \cap DOMAIN reservations' = {}

\* No location of sub is soft-deleted.
AllLive(sub) == \A l \in sub.locations : locations[l].deleted = NullDate

\* C12: after a deleteState answered 204 for a state whose subtree holds no
\* soft-deleted record, the state is gone and so is every city, location, car
\* and reservation that was beneath it.
C12_StateDeleteCascades ==
  [][\A id \in DOMAIN states :
       (/\ resp'.op = "deleteState"
        /\ resp'.code = 204
        /\ AllLive(BeneathStates({id}))
        /\ DeleteState(id))
       => /\ id \notin DOMAIN states'
          /\ GoneNext(BeneathStates({id}))]_vars

\* C12 witness: the state of the fixture was deleted after documents were
\* added; nothing of its subtree is left and another state is.
C12_Witness ==
  /\ resp.op = "deleteState"
  /\ resp.code = 204
  /\ 1 \notin DOMAIN states
  /\ states # EmptyCollection
  /\ nextId = FixtureIds + 1 + MaxCreated
  /\ cities = EmptyCollection
  /\ locations = EmptyCollection
  /\ cars = EmptyCollection
  /\ reservations = EmptyCollection

\* C13: after a deleteCity, deleteLocation or deleteCar answered 204, nothing
\* that was beneath the deleted document is left.
C13_CascadeAtEveryLevel ==
  [][/\ \A id \in DOMAIN cities :
          (resp'.op = "deleteCity" /\ resp'.code = 204 /\ DeleteCity(id))
          => GoneNext(BeneathCities({id}))
     /\ \A id \in DOMAIN locations :
          (resp'.op = "deleteLocation" /\ resp'.code = 204 /\ DeleteLocation(id))
          => GoneNext(BeneathLocations({id}))
     /\ \A id \in DOMAIN cars :
          (resp'.op = "deleteCar" /\ resp'.code = 204 /\ DeleteCar(id))
          => GoneNext(BeneathCars({id}))]_vars

\* C14: after a deleteState or a deleteCity answered 204 for a subtree that
\* holds a soft-deleted location, nothing that was beneath the deleted
\* document is left: the soft-deleted location, its cars and their
\* reservations are gone like the live ones.
C14_SoftDeletedCascade ==
  [][/\ \A id \in DOMAIN states :
          (/\ resp'.op = "deleteState"
           /\ resp'.code = 204
           /\ ~AllLive(BeneathStates({id}))
           /\ DeleteState(id))
          => GoneNext(BeneathStates({id}))
     /\ \A id \in DOMAIN cities :
          (/\ resp'.op = "deleteCity"
           /\ resp'.code = 204
           /\ ~AllLive(BeneathCities({id}))
           /\ DeleteCity(id))
          => GoneNext(BeneathCities({id}))]_vars

\* The documents of the collection outside ids are what they were.
KeptNext(coll, collNext, ids) ==
  \A i \in DOMAIN coll \ ids : i \in DOMAIN collNext /\ collNext[i] = coll[i]

\* The step removed the documents of sub and left every other city,
\* location, car and reservation untouched.
OnlyGoneNext(sub) ==
  /\ GoneNext(sub)
  /\ KeptNext(cities, cities', sub.cities)
  /\ KeptNext(locations, locations', sub.locations)
  /\ KeptNext(cars, cars', sub.cars)
  /\ KeptNext(reservations, reservations', sub.reservations)

\* C15: a bulk delete of the states ss (of the cities cs) removes them with
\* all descendants of each, and leaves every record outside those subtrees
\* untouched.
C15_BulkDeleteCascades ==
  [][/\ \A ss \in SUBSET DOMAIN states :
          (resp'.op = "State.deleteMany" /\ DeleteManyStates(ss))
          => /\ ss \cap DOMAIN states' = {}
             /\ KeptNext(states, states', ss)
             /\ OnlyGoneNext(BeneathStates(ss))
     /\ \A cs \in SUBSET DOMAIN cities :
          (resp'.op = "City.deleteMany" /\ DeleteManyCities(cs))
          => /\ states' = states
             /\ OnlyGoneNext([BeneathCities(cs) EXCEPT !.cities = cs])]_vars

-----------------------------------------------------------------------------
(* The claims on soft deletes.                                             *)

\* The reads of one soft-deletable collection: by default a list query, a
\* find-one and a lookup by id return the documents whose marker is null and
\* no other; with the withDeleted option, or with a filter on the deleted
\* field, they return the marked ones too.
Visibility(coll) ==
  LET live == {i \in DOMAIN coll : coll[i].deleted = NullDate}
      marked == DOMAIN coll \ live
      every == [ids |-> DOMAIN coll, deleted |-> "any"]
      only(i) == [ids |-> {i}, deleted |-> "any"]
  IN /\ Find(coll, every, FALSE) = live
     /\ Find(coll, every, TRUE) = DOMAIN coll
     /\ Find(coll, [every EXCEPT !.deleted = "set"], FALSE) = marked
     /\ Find(coll, [every EXCEPT !.deleted = "null"], FALSE) = live
     /\ \A i \in DOMAIN coll :
          /\ FindLiveById(coll, i) = {i} \cap live
          /\ FindOne(coll, only(i), FALSE) = {i} \cap live
          /\ FindOne(coll, only(i), TRUE) = {i}
          /\ FindOne(coll, [only(i) EXCEPT !.deleted = "set"], FALSE) = {i} \cap marked

\* C16: a Location or User whose deletion marker is set is left out of every
\* default read (list, find-one, by id) and returned under the withDeleted
\* option or an explicit filter on the deleted field; one whose marker is
\* null is returned by default.
C16_SoftDeleteVisibility == Visibility(locations) /\ Visibility(users)

\* C16 witness: a location and a user are soft-deleted and a live location
\* stands beside the soft-deleted one.
C16_Witness ==
  /\ \E l \in DOMAIN locations : locations[l].deleted # NullDate
  /\ \E l \in DOMAIN locations : locations[l].deleted = NullDate
  /\ \E u \in DOMAIN users : users[u].deleted # NullDate

\* The collection after the step differs from the one before in the deleted
\* field of id at most.
OnlyMarkerNext(coll, collNext, id) ==
  /\ DOMAIN collNext = DOMAIN coll
  /\ \A i \in DOMAIN coll :
       IF i = id
         THEN [collNext[i] EXCEPT !.deleted = coll[i].deleted] = coll[i]
         ELSE collNext[i] = coll[i]

\* C17: a softDeleteLocation or softDeleteUser changes the deletion marker of
\* that record and nothing else: the cars, the reservations, the locations
\* of the user and every other collection stay as they are.
C17_SoftDeleteFrame ==
  [][/\ \A id \in DOMAIN locations :
          (resp'.op = "softDeleteLocation" /\ SoftDeleteLocation(id))
          => /\ OnlyMarkerNext(locations, locations', id)
             /\ <<states, cities, users, cars, reservations>>' =
                  <<states, cities, users, cars, reservations>>
     /\ \A id \in DOMAIN users :
          (resp'.op = "softDeleteUser" /\ SoftDeleteUser(id))
          => /\ OnlyMarkerNext(users, users', id)
             /\ <<states, cities, locations, cars, reservations>>' =
                  <<states, cities, locations, cars, reservations>>]_vars

\* C17 witness: a location was just soft-deleted while a car under it holds a
\* reservation.
C17_Witness ==
  /\ resp.op = "softDeleteLocation"
  /\ resp.code = 200
  /\ \E r \in DOMAIN reservations :
       /\ reservations[r].carId \in DOMAIN cars
       /\ cars[reservations[r].carId].locationId \in DOMAIN locations
       /\ locations[cars[reservations[r].carId].locationId].deleted # NullDate

-----------------------------------------------------------------------------
(* The claims on names.                                                    *)

\* Title case of each word, a word being a run of characters without
\* whitespace: its first character in upper case, the others in lower case.
RECURSIVE TitleCaseFrom(_, _, _)
TitleCaseFrom(s, i, inWord) ==
  IF i > Len(s) THEN <<>>
  ELSE IF s[i] \in Whitespace
    THEN <<s[i]>> \o TitleCaseFrom(s, i + 1, FALSE)
    ELSE <<IF inWord THEN ToLower(s[i]) ELSE ToUpper(s[i])>> \o TitleCaseFrom(s, i + 1, TRUE)

\* A name trimmed, then in title case.
Normalized(name) == TitleCaseFrom(Trim(name), 1, FALSE)

\* C18: no two cities hold the same (stateId, normalized name), the name
\* normalized by trimming and title-casing each word.
C18_CityNamesUnique ==
  \A a \in DOMAIN cities, b \in DOMAIN cities :
    (a # b /\ cities[a].stateId = cities[b].stateId)
      => Normalized(cities[a].name) # Normalized(cities[b].name)

\* A name trimmed, with its letters in lower case: two names with the same
\* fold differ in letter case and surrounding whitespace at most.
Fold(name) == LET s == Trim(name) IN [i \in 1..Len(s) |-> ToLower(s[i])]

\* C19: no two states hold names that differ only in letter case or in
\* surrounding whitespace.
C19_StateNamesUnique ==
  \A a \in DOMAIN states, b \in DOMAIN states :
    a # b => Fold(states[a].name) # Fold(states[b].name)

-----------------------------------------------------------------------------
(* The claim on registration numbers.                                      *)

\* Upper-case letters and digits, six to twelve of them.
WellFormed(v) ==
  Len(v) \in 6..12 /\ \A i \in 1..Len(v) : v[i] \in {"A", "B", "C"} \cup Digits

\* Every stored registration number is well formed and no two cars share one.
RegistrationsSound(coll) ==
  /\ \A c \in DOMAIN coll : WellFormed(coll[c].registrationNumber)
  /\ \A a \in DOMAIN coll, b \in DOMAIN coll :
       a # b => coll[a].registrationNumber # coll[b].registrationNumber

\* Stored as typed but for the case of its letters, reg would be malformed
\* or would be the number of a car other than self.
WouldBreak(reg, self) ==
  LET v == [i \in 1..Len(reg) |-> ToUpper(reg[i])]
  IN \/ ~WellFormed(v)
     \/ \E c \in DOMAIN cars \ {self} : cars[c].registrationNumber = v

\* C20: over createCar and updateCar every stored registrationNumber is
\* upper case, matches [A-Z0-9]{6,12} and is held by one car; a request that
\* would break this is rejected and leaves the cars unchanged.
C20_RegistrationNumbers ==
  /\ []RegistrationsSound(cars)
  /\ [][/\ \A locationId \in DOMAIN locations, reg \in RegCases :
             (resp'.op = "createCar" /\ WouldBreak(reg, NoId)
                /\ CreateCar(locationId, 100, reg))
             => resp'.code \in {400, 409} /\ cars' = cars
        /\ \A id \in DOMAIN cars, reg \in RegCases :
             (resp'.op = "updateCar" /\ WouldBreak(reg, id)
                /\ UpdateCar(id, [registrationNumber |-> reg]))
             => resp'.code \in {400, 409} /\ cars' = cars]_vars

\* C20 witness: after a car was added, a re-registration to the number of
\* another car was refused as a duplicate.
C20_Witness ==
  /\ resp.op = "updateCar"
  /\ resp.code = 409
  /\ Cardinality(DOMAIN cars) > 2

-----------------------------------------------------------------------------
(* The claim on the status values.                                         *)

\* C21: the status of every stored reservation is one of pending,
\* confirmed, cancelled, completed.
C21_StatusInEnum ==
  \A r \in DOMAIN reservations :
    reservations[r].status \in {"pending", "confirmed", "cancelled", "completed"}

-----------------------------------------------------------------------------
(* The claim on deletes of ids that name nothing.                          *)

\* C22: a deleteState, deleteCity, deleteLocation or deleteCar for an id
\* that names no record is answered 404 and leaves every collection unchanged.
C22_DeleteUnknownIsNotFound ==
  [][/\ (resp'.op = "deleteState" /\ DeleteState(NoId))
          => resp'.code = 404 /\ store' = store
     /\ (resp'.op = "deleteCity" /\ DeleteCity(NoId))
          => resp'.code = 404 /\ store' = store
     /\ (resp'.op = "deleteLocation" /\ DeleteLocation(NoId))
          => resp'.code = 404 /\ store' = store
     /\ (resp'.op = "deleteCar" /\ DeleteCar(NoId))
          => resp'.code = 404 /\ store' = store]_vars

-----------------------------------------------------------------------------
(* Updates of references: cities, locations and cars are moved to another  *)
(* parent while parents are created and soft-deleted.                      *)

\* An update of a Location that checks no reference.
UpdateLocationUnchecked(id, updates) ==
  IF FindLiveById(locations, id) = {}
    THEN /\ resp' = Response("updateLocation", 404, "Location not found", {})
         /\ UNCHANGED <<store, now, pc, doc>>
    ELSE /\ locations' = [locations EXCEPT ![id] = ApplyUpdate(locations[id], updates)]
         /\ resp' = Ok("updateLocation", 200)
         /\ UNCHANGED <<states, cities, users, cars, reservations, nextId, now, pc, doc>>

\* updateLocation: City.exists when cityId is given, User.exists when userId
\* is given, then findByIdAndUpdate(id, updates, {new, runValidators}), a
\* findOneAndUpdate, so through the pre(/^find/) hook.
UpdateLocation(id, updates) ==
  LET blank == NewLocation(NoId, NoId)
      errs == {p \in LocationValidate(ApplyUpdate(blank, updates)) : p \in DOMAIN updates}
  IN IF "cityId" \in DOMAIN updates /\ FindById(cities, updates.cityId) = {}
       THEN /\ resp' = Response("updateLocation", 400, "Invalid city", {})
            /\ UNCHANGED <<store, now, pc, doc>>
       ELSE IF "userId" \in DOMAIN updates /\ FindLiveById(users, updates.userId) = {}
         THEN /\ resp' = Response("updateLocation", 400, "Invalid user", {})
              /\ UNCHANGED <<store, now, pc, doc>>
         ELSE IF errs # {}
           THEN /\ resp' = HandleErrors("updateLocation", ValidationError(errs))
                /\ UNCHANGED <<store, now, pc, doc>>
           ELSE IF FindLiveById(locations, id) = {}
             THEN /\ resp' = Response("updateLocation", 404, "Location not found", {})
                  /\ UNCHANGED <<store, now, pc, doc>>
             ELSE /\ locations' = [locations EXCEPT ![id] = ApplyUpdate(locations[id], updates)]
                  /\ resp' = Ok("updateLocation", 200)
                  /\ UNCHANGED <<states, cities, users, cars, reservations, nextId, now, pc, doc>>

\* The bodies of an updateLocation: cityId, userId or both.
LocationUpdates ==
  {[cityId |-> c] : c \in RefInputs(cities)}
    \cup {[userId |-> u] : u \in RefInputs(users)}
    \cup {[cityId |-> c, userId |-> u] : c \in RefInputs(cities), u \in RefInputs(users)}

NextFk ==
  \/ \E name \in {<<"b", "c">>} : CreateState(name) /\ CanCreate
  \/ \E name \in NameInputs, stateId \in RefInputs(states) :
       CreateCity(name, stateId) /\ CanCreate
  \/ \E cityId \in RefInputs(cities), userId \in RefInputs(users) :
       CreateLocation(cityId, userId) /\ CanCreate
  \/ \E id \in RefInputs(locations) : SoftDeleteLocation(id)
  \/ \E id \in RefInputs(users) : SoftDeleteUser(id)
  \/ \E id \in RefInputs(cities), stateId \in RefInputs(states) :
       UpdateCity(id, [stateId |-> stateId])
  \/ \E id \in RefInputs(locations), updates \in LocationUpdates :
       UpdateLocation(id, updates)
  \/ \E id \in RefInputs(cars), locationId \in RefInputs(locations) :
       UpdateCar(id, [locationId |-> locationId])

SpecFk == Init /\ [][NextFk]_vars

-----------------------------------------------------------------------------
(* The claim on updates of references.                                     *)

\* The id names no live document of the collection: none at all, or a
\* soft-deleted one.
NotLive(coll, id) == Unresolved(coll, id) \/ SoftDeleted(coll, id)

\* C23: an updateCity whose stateId, an updateLocation whose cityId or
\* userId, or an updateCar whose locationId names no live record is answered
\* with an error, and every collection is left as it was: the record keeps
\* its foreign key and its other fields.
C23_BadReferenceUpdateRejected ==
  [][/\ \A id \in RefInputs(cities), stateId \in RefInputs(states) :
          (/\ resp'.op = "updateCity"
           /\ Unresolved(states, stateId)
           /\ UpdateCity(id, [stateId |-> stateId]))
          => resp'.code \in {400, 404} /\ store' = store
     /\ \A id \in RefInputs(locations), updates \in LocationUpdates :
          (/\ resp'.op = "updateLocation"
           /\ \/ "cityId" \in DOMAIN updates /\ Unresolved(cities, updates.cityId)
              \/ "userId" \in DOMAIN updates /\ NotLive(users, updates.userId)
           /\ UpdateLocation(id, updates))
          => resp'.code \in {400, 404} /\ store' = store
     /\ \A id \in RefInputs(cars), locationId \in RefInputs(locations) :
          (/\ resp'.op = "updateCar"
           /\ NotLive(locations, locationId)
           /\ UpdateCar(id, [locationId |-> locationId]))
          => resp'.code \in {400, 404} /\ store' = store]_vars

\* C23 witness: with the user soft-deleted and a second location in place,
\* an updateLocation naming that user has just been refused.
C23_Witness ==
  /\ resp = Response("updateLocation", 400, "Invalid user", {})
  /\ \E u \in DOMAIN users : SoftDeleted(users, u)
  /\ Cardinality(DOMAIN locations) > 1

-----------------------------------------------------------------------------
(* deleteState step by step.  The lookups and the deleteMany calls of the  *)
(* nested pre hooks are separate database operations, awaited one after    *)
(* the other outside any transaction: the request can stop between two of  *)
(* them, and any of them can fail.                                         *)

\* The working values of a deleteState in flight: the state, what the hooks
\* found, and whether the caller is trying the same id again.
NewCascade(id, retry) ==
  [stateId |-> id, cs |-> {}, ls |-> {}, crs |-> {}, retry |-> retry]

\* pre('findOneAndDelete') of State looks the state up: 'Document not
\* found', or on to City.deleteMany({stateId: doc._id}).
StartCascade(p, id, retry) ==
  /\ IF FindById(states, id) = {}
       THEN /\ resp' = HandleErrors("deleteState", PlainError("Document not found"))
            /\ pc' = [pc EXCEPT ![p] = "idle"]
            /\ doc' = [doc EXCEPT ![p] = NoDoc[p]]
       ELSE /\ pc' = [pc EXCEPT ![p] = "findCities"]
            /\ doc' = [doc EXCEPT ![p] = NewCascade(id, retry)]
            /\ UNCHANGED resp
  /\ UNCHANGED <<store, now>>

\* deleteState arrives.
BeginDeleteState(p, id) ==
  /\ pc[p] = "idle"
  /\ StartCascade(p, id, FALSE)

\* pre('deleteMany') of City: this.model.find(this.getFilter()).
FindCities(p) ==
  /\ pc[p] = "findCities"
  /\ doc' = [doc EXCEPT ![p].cs = CitiesOfStates({doc[p].stateId})]
  /\ pc' = [pc EXCEPT ![p] = "findLocations"]
  /\ UNCHANGED <<store, now, resp>>

\* pre('deleteMany') of Location: this.model.find(this.getFilter()), through
\* pre(/^find/).
FindLocations(p) ==
  /\ pc[p] = "findLocations"
  /\ doc' = [doc EXCEPT ![p].ls =
               LocationsOfCities(doc[p].cs) \cap SoftDeleteFilter(locations, FALSE, FALSE)]
  /\ pc' = [pc EXCEPT ![p] = "findCars"]
  /\ UNCHANGED <<store, now, resp>>

\* pre('deleteMany') of Car: this.model.find(this.getFilter()).
FindCars(p) ==
  /\ pc[p] = "findCars"
  /\ doc' = [doc EXCEPT ![p].crs = CarsOfLocations(doc[p].ls)]
  /\ pc' = [pc EXCEPT ![p] = "deleteReservations"]
  /\ UNCHANGED <<store, now, resp>>

\* Reservation.deleteMany({carId: {$in: cars}}).
DeleteReservations(p) ==
  /\ pc[p] = "deleteReservations"
  /\ reservations' = Remove(reservations, ReservationsOfCars(doc[p].crs))
  /\ pc' = [pc EXCEPT ![p] = "deleteCars"]
  /\ UNCHANGED <<states, cities, locations, users, cars, nextId, now, resp, doc>>

\* Car.deleteMany({locationId: {$in: locations}}) after its hook.
DeleteCars(p) ==
  /\ pc[p] = "deleteCars"
  /\ cars' = Remove(cars, CarsOfLocations(doc[p].ls))
  /\ pc' = [pc EXCEPT ![p] = "deleteLocations"]
  /\ UNCHANGED <<states, cities, locations, users, reservations, nextId, now, resp, doc>>

\* Location.deleteMany({cityId: {$in: cities}}) after its hook: no find, so
\* soft-deleted locations go as well.
DeleteLocations(p) ==
  /\ pc[p] = "deleteLocations"
  /\ locations' = Remove(locations, LocationsOfCities(doc[p].cs))
  /\ pc' = [pc EXCEPT ![p] = "deleteCities"]
  /\ UNCHANGED <<states, cities, users, cars, reservations, nextId, now, resp, doc>>

\* City.deleteMany({stateId: doc._id}) after its hook.
DeleteCities(p) ==
  /\ pc[p] = "deleteCities"
  /\ cities' = Remove(cities, CitiesOfStates({doc[p].stateId}))
  /\ pc' = [pc EXCEPT ![p] = "deleteState"]
  /\ UNCHANGED <<states, locations, users, cars, reservations, nextId, now, resp, doc>>

\* The findOneAndDelete itself, after its hook, and the reply of deleteState.
FinishDeleteState(p) ==
  /\ pc[p] = "deleteState"
  /\ IF FindById(states, doc[p].stateId) = {}
       THEN /\ resp' = Response("deleteState", 404, "State not found", {})
            /\ UNCHANGED states
       ELSE /\ states' = Remove(states, {doc[p].stateId})
            /\ resp' = Ok("deleteState", 204)
  /\ pc' = [pc EXCEPT ![p] = "idle"]
  /\ doc' = [doc EXCEPT ![p] = NoDoc[p]]
  /\ UNCHANGED <<cities, locations, users, cars, reservations, nextId, now>>

\* The stages of a deleteState that are a deleteMany.
DeleteStages == {"deleteReservations", "deleteCars", "deleteLocations", "deleteCities"}

\* The level a deleteMany stage deletes.
LevelOf(stage) ==
  CASE stage = "deleteReservations" -> "reservations"
    [] stage = "deleteCars" -> "cars"
    [] stage = "deleteLocations" -> "locations"
    [] stage = "deleteCities" -> "cities"

Levels == {LevelOf(stage) : stage \in DeleteStages}

\* The error of a deleteMany the database refuses, here with the name of
\* the collection in its message.
LevelError(level) ==
  [name |-> "MongoServerError", message |-> level, paths |-> {}, code |-> 0]

\* What deleteState replies when the deleteMany of a level fails: the hooks
\* have no catch or hand the error on (next(err)), and handleErrors answers.
FailureReply(level) == HandleErrors("deleteState", LevelError(level))

\* The deleteMany of the stage fails.
Fail(p) ==
  /\ pc[p] \in DeleteStages
  /\ resp' = FailureReply(LevelOf(pc[p]))
  /\ pc' = [pc EXCEPT ![p] = "idle"]
  /\ doc' = [doc EXCEPT ![p] = NoDoc[p]]
  /\ UNCHANGED <<store, now>>

\* The stages a deleteMany has been executed before.
InterruptStages == {"deleteCars", "deleteLocations", "deleteCities", "deleteState"}

\* The request stops between two levels: the process dies, nothing is
\* replied and nothing is rolled back.
Interrupt(p) ==
  /\ pc[p] \in InterruptStages
  /\ pc' = [pc EXCEPT ![p] = "interrupted"]
  /\ UNCHANGED <<store, now, resp, doc>>

\* The caller sends the deleteState of the interrupted request again.
Retry(p) ==
  /\ pc[p] = "interrupted"
  /\ StartCascade(p, doc[p].stateId, TRUE)

\* One deleteState at a time and no other writer while it runs: the tree is
\* built and locations are soft-deleted between the requests.
NextSteps ==
  \/ \E stateId \in DOMAIN states :
       InFlight = {} /\ CreateCity(<<"a", "b">>, stateId) /\ CanCreate
  \/ \E cityId \in DOMAIN cities, userId \in DOMAIN users :
       InFlight = {} /\ CreateLocation(cityId, userId) /\ CanCreate
  \/ \E locationId \in DOMAIN locations :
       InFlight = {} /\ CreateCar(locationId, 100, <<"a", "b", "c", "1", "2", "1">>) /\ CanCreate
  \/ \E c \in DOMAIN cars, u \in DOMAIN users :
       InFlight = {} /\ CreateReservation(c, u, HalfDay, MsPerDay) /\ CanCreate
  \/ \E id \in DOMAIN locations : InFlight = {} /\ SoftDeleteLocation(id)
  \/ \E p \in Procs, id \in RefInputs(states) : InFlight = {} /\ BeginDeleteState(p, id)
  \/ \E p \in Procs : FindCities(p)
  \/ \E p \in Procs : FindLocations(p)
  \/ \E p \in Procs : FindCars(p)
  \/ \E p \in Procs : DeleteReservations(p)
  \/ \E p \in Procs : DeleteCars(p)
  \/ \E p \in Procs : DeleteLocations(p)
  \/ \E p \in Procs : DeleteCities(p)
  \/ \E p \in Procs : FinishDeleteState(p)
  \/ \E p \in Procs : Fail(p)
  \/ \E p \in Procs : Interrupt(p)
  \/ \E p \in Procs : Retry(p)

SpecSteps == Init /\ [][NextSteps]_vars

-----------------------------------------------------------------------------
(* The claims on the steps of a cascade.                                   *)

\* No city, location, car or reservation names a parent that is gone.
NoDanglingReference ==
  /\ \A c \in DOMAIN cities : cities[c].stateId \in DOMAIN states
  /\ \A l \in DOMAIN locations : locations[l].cityId \in DOMAIN cities
  /\ \A c \in DOMAIN cars : cars[c].locationId \in DOMAIN locations
  /\ \A r \in DOMAIN reservations : reservations[r].carId \in DOMAIN cars

\* C24: in a deleteState with no other writer, a state is removed only by
\* the last step of its cascade, when no city of it is left; and at every
\* point of the cascade, so wherever it is interrupted, no record names a
\* parent that has been removed.
C24_ParentsOutliveChildren ==
  /\ [][states' # states
          => \E p \in Procs :
               /\ pc[p] = "deleteState"
               /\ CitiesOfStates({doc[p].stateId}) = {}]_vars
  /\ []NoDanglingReference

\* C25: when a deleteState that was interrupted is sent again for the same
\* id, it is not refused, and when it completes it answers 204, the state is
\* gone and nothing is left that names a removed parent.
C25_CascadeRetryable ==
  [][\A p \in Procs :
       /\ Retry(p) => pc'[p] = "findCities"
       /\ (pc[p] = "deleteState" /\ doc[p].retry /\ FinishDeleteState(p))
            => /\ resp' = Ok("deleteState", 204)
               /\ doc[p].stateId \notin DOMAIN states'
               /\ NoDanglingReference']_vars

\* C26: when the deleteMany of a level fails during a deleteState, the reply
\* is an error, and it is a reply that a failure of no other level gets.
C26_FailureNamesLevel ==
  [][\A p \in Procs :
       Fail(p) => /\ resp'.code >= 400
                  /\ \A other \in Levels \ {LevelOf(pc[p])} : resp' # FailureReply(other)]_vars

-----------------------------------------------------------------------------
(* Concurrent creates.  A create runs its controller check, the validators *)
(* and the pre('save') hook of save(), and then the insert, where the      *)
(* unique index is applied; the steps of two requests interleave.          *)

\* createState up to the insert: save() validates the document.
StartCreateState(p, name) ==
  LET d == NewState(name)
      errs == StateValidate(d)
  IN /\ pc[p] = "idle"
     /\ IF errs # {}
          THEN /\ resp' = HandleErrors("createState", ValidationError(errs))
               /\ UNCHANGED <<pc, doc>>
          ELSE /\ nextId + Cardinality(InFlight) <= FixtureIds + MaxCreated
               /\ pc' = [pc EXCEPT ![p] = "insertState"]
               /\ doc' = [doc EXCEPT ![p] = d]
               /\ UNCHANGED resp
     /\ UNCHANGED <<store, now>>

\* The insert of a State, under the unique index on name.
InsertState(p) ==
  /\ pc[p] = "insertState"
  /\ IF StateDuplicates(doc[p], NoId) # {}
       THEN /\ resp' = HandleErrors("createState", DuplicateKeyError)
            /\ UNCHANGED store
       ELSE /\ states' = (nextId :> doc[p]) @@ states
            /\ nextId' = nextId + 1
            /\ resp' = Ok("createState", 201)
            /\ UNCHANGED <<cities, locations, users, cars, reservations>>
  /\ pc' = [pc EXCEPT ![p] = "idle"]
  /\ UNCHANGED <<now, doc>>

\* createCity up to the insert: State.exists, the validators, pre('save').
StartCreateCity(p, name, stateId) ==
  LET d == NewCity(name, stateId)
      errs == CityValidate(d)
  IN /\ pc[p] = "idle"
     /\ IF FindById(states, stateId) = {}
          THEN /\ resp' = Response("createCity", 400, "Invalid state", {})
               /\ UNCHANGED <<pc, doc>>
          ELSE IF errs # {}
            THEN /\ resp' = HandleErrors("createCity", ValidationError(errs))
                 /\ UNCHANGED <<pc, doc>>
            ELSE /\ nextId + Cardinality(InFlight) <= FixtureIds + MaxCreated
                 /\ pc' = [pc EXCEPT ![p] = "insertCity"]
                 /\ doc' = [doc EXCEPT ![p] = d]
                 /\ UNCHANGED resp
     /\ UNCHANGED <<store, now>>

\* The insert of a City, under the unique index on {stateId, name}.
InsertCity(p) ==
  /\ pc[p] = "insertCity"
  /\ IF CityDuplicates(doc[p], NoId) # {}
       THEN /\ resp' = HandleErrors("createCity", DuplicateKeyError)
            /\ UNCHANGED store
       ELSE /\ cities' = (nextId :> doc[p]) @@ cities
            /\ nextId' = nextId + 1
            /\ resp' = Ok("createCity", 201)
            /\ UNCHANGED <<states, locations, users, cars, reservations>>
  /\ pc' = [pc EXCEPT ![p] = "idle"]
  /\ UNCHANGED <<now, doc>>

\* createCar up to the insert: Location.findById, the validators,
\* pre('save').
StartCreateCar(p, locationId, price, reg) ==
  LET d == NewCar(locationId, price, reg)
      errs == CarValidate(d, {"locationId", "priceByDay", "registrationNumber"})
  IN /\ pc[p] = "idle"
     /\ IF FindLiveById(locations, locationId) = {}
          THEN /\ resp' = Response("createCar", 400, "Invalid location", {})
               /\ UNCHANGED <<pc, doc>>
          ELSE IF errs # {}
            THEN /\ resp' = HandleErrors("createCar", ValidationError(errs))
                 /\ UNCHANGED <<pc, doc>>
            ELSE /\ nextId + Cardinality(InFlight) <= FixtureIds + MaxCreated
                 /\ pc' = [pc EXCEPT ![p] = "insertCar"]
                 /\ doc' = [doc EXCEPT ![p] = d]
                 /\ UNCHANGED resp
     /\ UNCHANGED <<store, now>>

\* The insert of a Car, under the unique index on registrationNumber.
InsertCar(p) ==
  /\ pc[p] = "insertCar"
  /\ IF CarDuplicates(doc[p], NoId) # {}
       THEN /\ resp' = HandleErrors("createCar", DuplicateKeyError)
            /\ UNCHANGED store
       ELSE /\ cars' = (nextId :> doc[p]) @@ cars
            /\ nextId' = nextId + 1
            /\ resp' = Ok("createCar", 201)
            /\ UNCHANGED <<states, cities, locations, users, reservations>>
  /\ pc' = [pc EXCEPT ![p] = "idle"]
  /\ UNCHANGED <<now, doc>>

\* Names and registration numbers that differ as sent and are equal as
\* stored, next to those of the initial database.
RaceNames == {<<"b", "c">>, <<" ", "b", "C">>, <<"c", "a">>}

RaceRegs == {<<"b", "b", "c", "1", "2", "3">>, <<"B", "B", "C", "1", "2", "3">>,
             <<"a", "b", "c", "1", "2", "3">>}

NextDup ==
  \/ \E p \in Procs, name \in RaceNames : StartCreateState(p, name)
  \/ \E p \in Procs : InsertState(p)
  \/ \E p \in Procs, name \in RaceNames, stateId \in RefInputs(states) :
       StartCreateCity(p, name, stateId)
  \/ \E p \in Procs : InsertCity(p)
  \/ \E p \in Procs, locationId \in RefInputs(locations), reg \in RaceRegs :
       StartCreateCar(p, locationId, 100, reg)
  \/ \E p \in Procs : InsertCar(p)

SpecDup == Init /\ [][NextDup]_vars

-----------------------------------------------------------------------------
(* The claim on concurrent creates.                                        *)

\* No two states hold one name, no two cities of a state one name, no two
\* cars one registration number.
KeysUnique ==
  /\ \A a \in DOMAIN states, b \in DOMAIN states :
       states[a].name = states[b].name => a = b
  /\ \A a \in DOMAIN cities, b \in DOMAIN cities :
       (cities[a].stateId = cities[b].stateId /\ cities[a].name = cities[b].name) => a = b
  /\ \A a \in DOMAIN cars, b \in DOMAIN cars :
       cars[a].registrationNumber = cars[b].registrationNumber => a = b

\* C27: however the checks and the inserts of concurrent createState,
\* createCity and createCar requests interleave, no two stored documents
\* hold one unique key, and the insert of a document whose key is already
\* stored is answered 409 and stores nothing.
C27_OneCommitPerKey ==
  /\ []KeysUnique
  /\ [][\A p \in Procs :
          /\ (InsertState(p) /\ \E s \in DOMAIN states : states[s].name = doc[p].name)
               => resp'.code = 409 /\ store' = store
          /\ (InsertCity(p) /\ \E c \in DOMAIN cities :
                                 /\ cities[c].stateId = doc[p].stateId
                                 /\ cities[c].name = doc[p].name)
               => resp'.code = 409 /\ store' = store
          /\ (InsertCar(p) /\ \E c \in DOMAIN cars :
                                cars[c].registrationNumber = doc[p].registrationNumber)
               => resp'.code = 409 /\ store' = store]_vars

\* C27 witness: two createCity requests built the same new document; both
\* are done, the last one was answered 409 and one such city is stored.
C27_Witness ==
  /\ InFlight = {}
  /\ resp = HandleErrors("createCity", DuplicateKeyError)
  /\ \A p \in Procs, q \in Procs : doc[p] = doc[q]
  /\ \E c \in DOMAIN cities : c > FixtureIds /\ \A p \in Procs : cities[c] = doc[p]

-----------------------------------------------------------------------------
(* A create beneath a state while the state is deleted: the steps of       *)
(* createCity and those of deleteState interleave.                         *)

NextOrphan ==
  \/ \E p \in Procs, name \in RaceNames, stateId \in RefInputs(states) :
       StartCreateCity(p, name, stateId)
  \/ \E p \in Procs : InsertCity(p)
  \/ \E p \in Procs, id \in RefInputs(states) : BeginDeleteState(p, id)
  \/ \E p \in Procs : FindCities(p)
  \/ \E p \in Procs : FindLocations(p)
  \/ \E p \in Procs : FindCars(p)
  \/ \E p \in Procs : DeleteReservations(p)
  \/ \E p \in Procs : DeleteCars(p)
  \/ \E p \in Procs : DeleteLocations(p)
  \/ \E p \in Procs : DeleteCities(p)
  \/ \E p \in Procs : FinishDeleteState(p)

SpecOrphan == Init /\ [][NextOrphan]_vars

-----------------------------------------------------------------------------
(* The claim on a create that meets the delete of its parent.              *)

\* C28: when createCity and deleteState requests have run concurrently and
\* none is in flight any more, no stored record names a parent that is gone:
\* a city created beneath the deleted state was refused or went with it.
C28_NoChildOutlivesParent == InFlight = {} => NoDanglingReference

-----------------------------------------------------------------------------
(* Bookings while prices change: the steps of createReservation interleave *)
(* with updateCar requests that set priceByDay.                            *)

NextReprice ==
  \/ \E p \in Procs, c \in DOMAIN cars, u \in DOMAIN users, s, e \in DateInputs :
       StartSave(p, c, u, s, e)
  \/ \E p \in Procs : PriceHook(p)
  \/ \E p \in Procs : OverlapHook(p)
  \/ \E p \in Procs : Insert(p)
  \/ \E id \in DOMAIN cars, price \in PriceInputs :
       UpdateCar(id, [priceByDay |-> price])

SpecReprice == Init /\ [][NextReprice]_vars

-----------------------------------------------------------------------------
(* The claim on the price of a booking made while the price changes.       *)

\* C29: the reservation a createReservation inserts carries totalPrice =
\* days charged times the priceByDay its car has at the insert.
C29_PriceAtInsert ==
  [][\A p \in Procs :
       Insert(p) =>
         reservations'[nextId].totalPrice =
           DaysCharged(doc[p].endDate - doc[p].startDate) * cars[doc[p].carId].priceByDay]_vars

-----------------------------------------------------------------------------
(* Soft-deleted locations and users: the requests that name one by id.     *)

\* updateUser: findByIdAndUpdate(id, updates, {new, runValidators}) with
\* orFail(), through pre(/^find/); a user that is not found is a
\* DocumentNotFoundError for handleErrors.
UpdateUser(id, updates) ==
  IF FindLiveById(users, id) = {}
    THEN /\ resp' = HandleErrors("updateUser", PlainError("No document found for query"))
         /\ UNCHANGED <<store, now, pc, doc>>
    ELSE /\ users' = [users EXCEPT ![id] = ApplyUpdate(users[id], updates)]
         /\ resp' = Ok("updateUser", 200)
         /\ UNCHANGED <<states, cities, locations, cars, reservations, nextId, now, pc, doc>>

\* Bodies of an updateUser: paths the model does not keep (name, email), or
\* deleted: null to bring the user back.
UserUpdates == {[name |-> <<"a", "b">>], [deleted |-> NullDate]}

\* Bodies of an updateLocation whose references resolve.
SoundLocationUpdates ==
  {u \in LocationUpdates :
     /\ "cityId" \in DOMAIN u => FindById(cities, u.cityId) # {}
     /\ "userId" \in DOMAIN u => FindLiveById(users, u.userId) # {}}

NextSoft ==
  \/ \E cityId \in DOMAIN cities, userId \in DOMAIN users :
       CreateLocation(cityId, userId) /\ CanCreate
  \/ \E id \in RefInputs(locations) : SoftDeleteLocation(id)
  \/ \E id \in RefInputs(users) : SoftDeleteUser(id)
  \/ \E id \in RefInputs(locations), updates \in LocationUpdates :
       UpdateLocation(id, updates)
  \/ \E id \in RefInputs(locations) : DeleteLocation(id)
  \/ \E id \in RefInputs(users), updates \in UserUpdates : UpdateUser(id, updates)
  \/ \E id \in RefInputs(users) : DeleteUser(id)
  \/ Tick

SpecSoft == Init /\ [][NextSoft]_vars

-----------------------------------------------------------------------------
(* The claim on requests that name a soft-deleted record.                  *)

\* C30: an updateLocation (with references that resolve), softDeleteLocation
\* or deleteLocation on the id of a soft-deleted location, and an updateUser,
\* softDeleteUser or deleteUser on the id of a soft-deleted user, is answered
\* 404 and leaves every collection as it was, the deleted date included.
C30_SoftDeletedNotFound ==
  [][/\ \A id \in DOMAIN locations :
          SoftDeleted(locations, id) =>
            /\ \A updates \in SoundLocationUpdates :
                 (resp'.op = "updateLocation" /\ UpdateLocation(id, updates))
                   => resp'.code = 404 /\ store' = store
            /\ (resp'.op = "softDeleteLocation" /\ SoftDeleteLocation(id))
                 => resp'.code = 404 /\ store' = store
            /\ (resp'.op = "deleteLocation" /\ DeleteLocation(id))
                 => resp'.code = 404 /\ store' = store
     /\ \A id \in DOMAIN users :
          SoftDeleted(users, id) =>
            /\ \A updates \in UserUpdates :
                 (resp'.op = "updateUser" /\ UpdateUser(id, updates))
                   => resp'.code = 404 /\ store' = store
            /\ (resp'.op = "softDeleteUser" /\ SoftDeleteUser(id))
                 => resp'.code = 404 /\ store' = store
            /\ (resp'.op = "deleteUser" /\ DeleteUser(id))
                 => resp'.code = 404 /\ store' = store]_vars

====
